---- MODULE Spec2Model ----
(***************************************************************************)
(* A model of odex: an in-memory indexed set (IndexedSet) whose filter()   *)
(* runs condition -> plan -> rule-based optimizer -> executor against      *)
(* pluggable indexes (HashIndex, SortedDictIndex, InvertedIndex).          *)
(*                                                                         *)
(* Python values are modelled as follows.                                  *)
(*   - a stored object is a record of its native attributes; an attribute  *)
(*     the object does not have is a field the record does not have        *)
(*   - a raised exception is the record Raise(<exception class>)           *)
(*   - None is the record None                                             *)
(*   - a NamedTuple Bound(value, inclusive) is the tuple <<value, incl>>   *)
(*     and the UNSET sentinel is the tuple <<>>                            *)
(*   - a dict is a function whose DOMAIN is its key set                    *)
(***************************************************************************)
EXTENDS Integers, Sequences, FiniteSets, TLC

VARIABLES
    objs,       \* IndexedSet.objs: the set of stored objects
    indexes,    \* IndexedSet.indexes: ordered dict attr -> list of indexes
    idx,        \* idx[i]: the dict HashIndex.idx of the registered index i
    call        \* the last call made on the facade and what it returned or raised

vars == <<objs, indexes, idx, call>>

(***************************************************************************)
(* Bounds of the model.                                                    *)
(***************************************************************************)
MaxVal == 2       \* literals and range bounds are drawn from 1..MaxVal
NumObjs == 3      \* the first NumObjs objects of Universe may be stored
MaxItems == 2     \* an Array has at most this many items

Values == 1..MaxVal

(***************************************************************************)
(* The objects that can be stored: named tuples X(a, tags).  One has a     *)
(* repeated element in tags, one has no attribute a at all (getattr raises *)
(* AttributeError on it), one has no tags elements, two share a value of   *)
(* a.                                                                      *)
(***************************************************************************)
Universe ==
    << [a |-> 1, tags |-> <<1, 2>>],
       [a |-> 2, tags |-> <<2, 2>>],
       [tags |-> <<1>>],
       [a |-> 1, tags |-> <<>>],
       [a |-> 2, tags |-> <<1>>] >>

Objects == {Universe[i] : i \in 1..NumObjs}

(***************************************************************************)
(* Outcomes of a call.                                                     *)
(***************************************************************************)
None == [type |-> "None"]
Raise(e) == [type |-> "Raise", error |-> e]
Return(v) == [type |-> "Return", value |-> v]
IsRaise(r) == r.type = "Raise"

(***************************************************************************)
(* Sequences of distinct elements: the orders in which a Python set may be *)
(* iterated.                                                               *)
(***************************************************************************)
Orders(S) ==
    {s \in [1..Cardinality(S) -> S] : \A i, j \in 1..Cardinality(S) : s[i] = s[j] => i = j}

SeqSet(s) == {s[i] : i \in 1..Len(s)}

(***************************************************************************)
(* Context.getattr / IndexedSet.getattr with no attrs override: the        *)
(* object's native attribute, AttributeError when it has none.             *)
(***************************************************************************)
getattr(obj, item) ==
    IF item \in DOMAIN obj THEN Return(obj[item]) ELSE Raise("AttributeError")

(***************************************************************************)
(* Indexes.  An index is identified by its class and attribute.            *)
(***************************************************************************)
HashIndex(attr) == [class |-> "HashIndex", attr |-> attr]
SortedDictIndex(attr) == [class |-> "SortedDictIndex", attr |-> attr]
InvertedIndex(attr) == [class |-> "InvertedIndex", attr |-> attr]

AllIndexes == {HashIndex("a"), SortedDictIndex("a"), InvertedIndex("tags")}

\* The `indexes` arguments of the constructor: no index, one index, or two
\* distinct indexes in either order.
IndexLists ==
    UNION {Orders(I) : I \in {J \in SUBSET AllIndexes : \E i, j \in AllIndexes : J \subseteq {i, j}}}

\* The arguments of update and difference_update: no object, one object or
\* two objects.
Batches == {S \in SUBSET Objects : \E x, y \in Objects : S \subseteq {x, y}}

\* HashIndex._extract_values / InvertedIndex._extract_values: the keys under
\* which obj is filed, as the sequence the generator yields.
extract_values(index, obj) ==
    LET got == getattr(obj, index.attr) IN
    IF IsRaise(got) THEN got
    ELSE IF index.class = "InvertedIndex" THEN Return(got.value)
    ELSE Return(<<got.value>>)

\* dict.setdefault(k, set()): the dict with key k present.
setdefault(d, k) ==
    IF k \in DOMAIN d THEN d
    ELSE [x \in DOMAIN d \cup {k} |-> IF x = k THEN {} ELSE d[x]]

\* A HashIndex.add that files the object under the first extracted value
\* only.
add_values_first(d, vals, o) ==
    IF vals = <<>> THEN d
    ELSE [setdefault(d, Head(vals)) EXCEPT ![Head(vals)] = @ \cup {o}]

\* The inner loop of HashIndex.add for one object: never raises.
RECURSIVE add_values(_, _, _)
add_values(d, vals, o) ==
    IF vals = <<>> THEN d
    ELSE add_values([setdefault(d, Head(vals)) EXCEPT ![Head(vals)] = @ \cup {o}],
                    Tail(vals), o)

\* The inner loop of HashIndex.remove for one object: set.remove raises
\* KeyError when o is not in the bucket, after setdefault created the bucket.
RECURSIVE remove_values(_, _, _)
remove_values(d, vals, o) ==
    IF vals = <<>> THEN [d |-> d, err |-> None]
    ELSE LET e == setdefault(d, Head(vals)) IN
         IF o \in e[Head(vals)]
         THEN remove_values([e EXCEPT ![Head(vals)] = @ \ {o}], Tail(vals), o)
         ELSE [d |-> e, err |-> Raise("KeyError")]

\* HashIndex.add(objs, ctx), objs iterated in the order `order`.
RECURSIVE HashIndex_add(_, _, _)
HashIndex_add(index, d, order) ==
    IF order = <<>> THEN [d |-> d, err |-> None]
    ELSE LET vals == extract_values(index, Head(order)) IN
         IF IsRaise(vals) THEN [d |-> d, err |-> vals]
         ELSE HashIndex_add(index, add_values(d, vals.value, Head(order)), Tail(order))

\* HashIndex.remove(objs, ctx), objs iterated in the order `order`.
RECURSIVE HashIndex_remove(_, _, _)
HashIndex_remove(index, d, order) ==
    IF order = <<>> THEN [d |-> d, err |-> None]
    ELSE LET vals == extract_values(index, Head(order)) IN
         IF IsRaise(vals) THEN [d |-> d, err |-> vals]
         ELSE LET r == remove_values(d, vals.value, Head(order)) IN
              IF IsRaise(r.err) THEN r
              ELSE HashIndex_remove(index, r.d, Tail(order))

\* HashIndex.lookup: idx.get(value) or set().
HashIndex_lookup(d, value) ==
    IF value \in DOMAIN d THEN d[value] ELSE {}

(***************************************************************************)
(* IndexedSet: registration of the indexes and the mutation surface.       *)
(***************************************************************************)
\* IndexedSet.__init__, the loop that fills self.indexes: an ordered dict
\* attr -> list, as the sequence of its items.
RECURSIVE register(_, _)
register(dict, list) ==
    IF list = <<>> THEN dict
    ELSE LET index == Head(list)
             at == {i \in 1..Len(dict) : dict[i].attr = index.attr} IN
         register(IF at = {}
                  THEN Append(dict, [attr |-> index.attr, list |-> <<index>>])
                  ELSE [i \in 1..Len(dict) |->
                           IF i \in at
                           THEN [dict[i] EXCEPT !.list = Append(@, index)]
                           ELSE dict[i]],
                  Tail(list))

\* ctx.indexes.get(name) or []
indexes_get(ctx, name) ==
    LET at == {i \in 1..Len(ctx) : ctx[i].attr = name} IN
    IF at = {} THEN <<>> ELSE ctx[CHOOSE i \in at : TRUE].list

\* IndexedSet._iter_indexes: every list of the dict, in insertion order.
RECURSIVE iter_indexes(_)
iter_indexes(ctx) ==
    IF ctx = <<>> THEN <<>> ELSE Head(ctx).list \o iter_indexes(Tail(ctx))

\* `for index in self._iter_indexes(): index.add(objs, self)`: the first
\* index that raises ends the loop, the later ones are left as they were.
RECURSIVE add_all(_, _, _)

\* A loop over the indexes that goes on to the later indexes after one has
\* raised.
RECURSIVE add_all_continue(_, _, _)
add_all_continue(ds, list, order) ==
    IF list = <<>> THEN [idx |-> ds, err |-> None]
    ELSE LET r == HashIndex_add(Head(list), ds[Head(list)], order)
             rest == add_all_continue([ds EXCEPT ![Head(list)] = r.d], Tail(list), order) IN
         IF IsRaise(r.err) THEN [idx |-> rest.idx, err |-> r.err] ELSE rest

add_all(ds, list, order) ==
    IF list = <<>> THEN [idx |-> ds, err |-> None]
    ELSE LET r == HashIndex_add(Head(list), ds[Head(list)], order)
             ds1 == [ds EXCEPT ![Head(list)] = r.d] IN
         IF IsRaise(r.err) THEN [idx |-> ds1, err |-> r.err]
         ELSE add_all(ds1, Tail(list), order)

RECURSIVE remove_all(_, _, _)
remove_all(ds, list, order) ==
    IF list = <<>> THEN [idx |-> ds, err |-> None]
    ELSE LET r == HashIndex_remove(Head(list), ds[Head(list)], order)
             ds1 == [ds EXCEPT ![Head(list)] = r.d] IN
         IF IsRaise(r.err) THEN [idx |-> ds1, err |-> r.err]
         ELSE remove_all(ds1, Tail(list), order)

\* IndexedSet.__init__(objs, indexes): every index starts as an empty dict
\* and self.update(self.objs) fills it.  A constructor that raises builds
\* no set.
Init ==
    \E list \in IndexLists, S \in SUBSET Objects : \E order \in Orders(S) :
        LET ctx == register(<<>>, list)
            r == add_all([i \in SeqSet(list) |-> <<>>], iter_indexes(ctx), order) IN
        /\ ~IsRaise(r.err)
        /\ objs = S
        /\ indexes = ctx
        /\ idx = r.idx
        /\ call = [op |-> "init", ret |-> None]

\* IndexedSet.add(obj)
Add(obj) ==
    LET r == add_all(idx, iter_indexes(indexes), <<obj>>) IN
    /\ objs' = objs \cup {obj}
    /\ idx' = r.idx
    /\ call' = [op |-> "add", ret |-> r.err]
    /\ UNCHANGED indexes

\* IndexedSet.discard(obj)
Discard(obj) ==
    LET r == remove_all(idx, iter_indexes(indexes), <<obj>>) IN
    /\ objs' = objs \ {obj}
    /\ idx' = r.idx
    /\ call' = [op |-> "discard", ret |-> r.err]
    /\ UNCHANGED indexes

\* IndexedSet.update(objs): the argument is iterated in the same order for
\* every index.
Update(S) ==
    \E order \in Orders(S) :
        LET r == add_all(idx, iter_indexes(indexes), order) IN
        /\ objs' = objs \cup S
        /\ idx' = r.idx
        /\ call' = [op |-> "update", ret |-> r.err]
        /\ UNCHANGED indexes

\* IndexedSet.difference_update(objs)
DifferenceUpdate(S) ==
    \E order \in Orders(S) :
        LET r == remove_all(idx, iter_indexes(indexes), order) IN
        /\ objs' = objs \ S
        /\ idx' = r.idx
        /\ call' = [op |-> "difference_update", ret |-> r.err]
        /\ UNCHANGED indexes

Next ==
    \/ \E obj \in Objects : Add(obj)
    \/ \E obj \in Objects : Discard(obj)
    \/ \E S \in Batches : Update(S)
    \/ \E S \in Batches : DifferenceUpdate(S)

Spec == Init /\ [][Next]_vars

(***************************************************************************)
(* Range: an interval with optional bounds.  Bound is a NamedTuple, so a   *)
(* bound is the tuple <<value, inclusive>> and == compares both fields.    *)
(***************************************************************************)
UNSET == <<>>
Bound(value, inclusive) == <<value, inclusive>>
Range(left, right) == [left |-> left, right |-> right]

\* The two lambdas Range.combine passes as `compare`: "gt" is
\* lambda a, b: a > b and "lt" is lambda a, b: a < b
compare_values(compare, a, b) ==
    IF compare = "gt" THEN a > b ELSE a < b

\* Range._combine_bounds
Range_combine_bounds(a, b, compare) ==
    IF a = UNSET THEN b
    ELSE IF b = UNSET THEN a
    ELSE IF a = b THEN Bound(a[1], a[2] /\ b[2])
    ELSE IF compare_values(compare, a[1], b[1]) THEN a
    ELSE b

\* A Range.combine whose check for an invalid range takes every pair of
\* equal bound values for empty.
Range_combine_strict(self, other) ==
    LET left == Range_combine_bounds(self.left, other.left, "gt")
        right == Range_combine_bounds(self.right, other.right, "lt") IN
    IF left # UNSET /\ right # UNSET /\ left[1] >= right[1]
    THEN None
    ELSE Range(left, right)

\* Range.combine: the combined range, None for an invalid (empty) one.
Range_combine(self, other) ==
    LET left == Range_combine_bounds(self.left, other.left, "gt")
        right == Range_combine_bounds(self.right, other.right, "lt") IN
    IF /\ left # UNSET
       /\ right # UNSET
       /\ IF left[2] /\ right[2] THEN left[1] > right[1] ELSE left[1] >= right[1]
    THEN None
    ELSE Range(left, right)

Bounds == {UNSET} \cup {Bound(v, i) : v \in Values, i \in BOOLEAN}
Ranges == {Range(l, r) : l, r \in Bounds}

(***************************************************************************)
(* Conditions: the nodes of the syntax tree.  A BinOp is a record with     *)
(* left and right, a UnaryOp a record with operand; `type` is the class.   *)
(***************************************************************************)
Literal(value) == [type |-> "Literal", value |-> value]
Attribute(name) == [type |-> "Attribute", name |-> name]
Array(items) == [type |-> "Array", items |-> items]
BinOp(type, left, right) == [type |-> type, left |-> left, right |-> right]
Not(operand) == [type |-> "Not", operand |-> operand]

IsBinOp(condition) == "left" \in DOMAIN condition

\* A value that is not a Condition, given to a builder: a bare scalar.
Scalar(value) == [type |-> "scalar", value |-> value]

\* condition.ensure_condition
ensure_condition(val) ==
    IF val.type = "scalar" THEN Literal(val.value) ELSE val

\* [ensure_condition(c) for c in conditions]
RECURSIVE ensure_each(_)
ensure_each(conditions) ==
    IF conditions = <<>> THEN <<>>
    ELSE <<ensure_condition(Head(conditions))>> \o ensure_each(Tail(conditions))

\* reduce(lambda l, r: And(l, r), conditions), and the same with Or: a
\* left-associative tree
RECURSIVE reduce(_, _)
reduce(type, conditions) ==
    IF Len(conditions) = 1 THEN conditions[1]
    ELSE BinOp(type, reduce(type, SubSeq(conditions, 1, Len(conditions) - 1)),
               conditions[Len(conditions)])

\* condition.and_
and_(conditions) == reduce("And", ensure_each(conditions))

\* condition.or_
or_(conditions) == reduce("Or", ensure_each(conditions))

\* condition.eq, ne, lt, le, gt, ge, in_: the class named `type` on the two
\* operands
binop(type, left, right) == BinOp(type, ensure_condition(left), ensure_condition(right))

\* condition.not_
not_(operand) == Not(ensure_condition(operand))

(***************************************************************************)
(* The values the matcher computes: int, bool, tuple (of ints) and set,    *)
(* each tagged with its Python type.                                       *)
(***************************************************************************)
PyInt(n) == [type |-> "int", value |-> n]
PyBool(b) == [type |-> "bool", value |-> b]
PyTuple(s) == [type |-> "tuple", value |-> s]
PySet(S) == [type |-> "set", value |-> S]

\* The native attributes of the stored objects: a is an int, tags a tuple.
PyAttr(name, raw) == IF name = "tags" THEN PyTuple(raw) ELSE PyInt(raw)

\* bool(x)
Truthy(x) ==
    CASE x.type = "int" -> x.value # 0
      [] x.type = "bool" -> x.value
      [] x.type = "tuple" -> x.value # <<>>
      [] x.type = "set" -> x.value # {}

IsNum(x) == x.type \in {"int", "bool"}
Num(x) == IF x.type = "bool" THEN (IF x.value THEN 1 ELSE 0) ELSE x.value

\* l == r
PyEq(l, r) ==
    IF IsNum(l) /\ IsNum(r) THEN Num(l) = Num(r)
    ELSE l.type = r.type /\ l.value = r.value

\* l < r on tuples of ints
RECURSIVE TupleLess(_, _)
TupleLess(s, t) ==
    IF t = <<>> THEN FALSE
    ELSE IF s = <<>> THEN TRUE
    ELSE IF Head(s) # Head(t) THEN Head(s) < Head(t)
    ELSE TupleLess(Tail(s), Tail(t))

\* operator.lt(l, r)
PyLt(l, r) ==
    IF IsNum(l) /\ IsNum(r) THEN PyBool(Num(l) < Num(r))
    ELSE IF l.type = "tuple" /\ r.type = "tuple" THEN PyBool(TupleLess(l.value, r.value))
    ELSE IF l.type = "set" /\ r.type = "set"
         THEN PyBool(l.value \subseteq r.value /\ l.value # r.value)
    ELSE Raise("TypeError")

\* operator.le(l, r)
PyLe(l, r) ==
    IF IsNum(l) /\ IsNum(r) THEN PyBool(Num(l) <= Num(r))
    ELSE IF l.type = "tuple" /\ r.type = "tuple" THEN PyBool(~TupleLess(r.value, l.value))
    ELSE IF l.type = "set" /\ r.type = "set" THEN PyBool(l.value \subseteq r.value)
    ELSE Raise("TypeError")

\* l in r
PyIn(l, r) ==
    IF r.type = "set"
    THEN IF l.type = "set" THEN Raise("TypeError")
         ELSE PyBool(\E e \in r.value : PyEq(l, e))
    ELSE IF r.type = "tuple"
    THEN PyBool(\E k \in 1..Len(r.value) : PyEq(l, PyInt(r.value[k])))
    ELSE Raise("TypeError")

\* IndexedSet.BINOPS, the operators of the conditions of this model
BINOPS(type, l, r) ==
    CASE type = "Eq" -> PyBool(PyEq(l, r))
      [] type = "Ne" -> PyBool(~PyEq(l, r))
      [] type = "Lt" -> PyLt(l, r)
      [] type = "Le" -> PyLe(l, r)
      [] type = "Gt" -> PyLt(r, l)
      [] type = "Ge" -> PyLe(r, l)
      [] type = "And" -> IF Truthy(l) THEN r ELSE l
      [] type = "Or" -> IF Truthy(l) THEN l ELSE r
      [] type = "In" -> PyIn(l, r)

\* The first exception of a sequence of outcomes, None when there is none.
FirstRaise(rs) ==
    LET at == {i \in 1..Len(rs) : IsRaise(rs[i])} IN
    IF at = {} THEN None ELSE rs[CHOOSE i \in at : \A j \in at : i <= j]

\* IndexedSet.match: the matchers table.  match_binop evaluates both
\* operands, left first, and then applies the operator.
RECURSIVE match(_, _)

\* [self.match(i, obj) for i in items]
RECURSIVE match_each(_, _)
match_each(items, obj) ==
    IF items = <<>> THEN <<>>
    ELSE <<match(Head(items), obj)>> \o match_each(Tail(items), obj)

\* match_attribute, given the outcome of getattr(obj, condition.name)
match_attribute(name, got) ==
    IF IsRaise(got) THEN got ELSE PyAttr(name, got.value)

\* match_array, given the outcomes of the items: set(...) of the values
match_array(items, raised) ==
    IF raised # None THEN raised
    ELSE IF \E i \in 1..Len(items) : items[i].type = "set" THEN Raise("TypeError")
    ELSE PySet(SeqSet(items))

\* match_unaryop, given the outcome of the operand
match_unaryop(v) ==
    IF IsRaise(v) THEN v ELSE PyBool(~Truthy(v))

\* match_binop, given the outcomes of the operands
match_binop(type, l, r) ==
    IF IsRaise(l) THEN l
    ELSE IF IsRaise(r) THEN r
    ELSE BINOPS(type, l, r)

\* [self.match(i, obj) for i in items] and its first exception
match_items(items) == match_array(items, FirstRaise(items))

match(condition, obj) ==
    CASE condition.type = "Literal" -> PyInt(condition.value)
      [] condition.type = "Attribute" ->
            match_attribute(condition.name, getattr(obj, condition.name))
      [] condition.type = "Array" -> match_items(match_each(condition.items, obj))
      [] condition.type = "Not" -> match_unaryop(match(condition.operand, obj))
      [] OTHER -> match_binop(condition.type, match(condition.left, obj),
                              match(condition.right, obj))

(***************************************************************************)
(* Plans: the nodes of a query plan.                                       *)
(***************************************************************************)
Empty == [type |-> "Empty"]
ScanFilter(condition) == [type |-> "ScanFilter", condition |-> condition]
Filter(condition, input) == [type |-> "Filter", condition |-> condition, input |-> input]
Intersect(inputs) == [type |-> "Intersect", inputs |-> inputs]
Union(inputs) == [type |-> "Union", inputs |-> inputs]
IndexLookup(index, value) == [type |-> "IndexLookup", index |-> index, value |-> value]
IndexRange(index, range) == [type |-> "IndexRange", index |-> index, range |-> range]

IsSetOp(plan) == plan.type \in {"Intersect", "Union"}

\* Planner.plan
RECURSIVE Planner_plan(_)
Planner_plan(condition) ==
    IF condition.type = "And"
    THEN Intersect(<<Planner_plan(condition.left), Planner_plan(condition.right)>>)
    ELSE IF condition.type = "Or"
    THEN Union(<<Planner_plan(condition.left), Planner_plan(condition.right)>>)
    ELSE ScanFilter(condition)

(***************************************************************************)
(* Index.match.  `side` names the side of the condition that is the        *)
(* operand object, so `operand is condition.right` is side = "right".      *)
(***************************************************************************)
\* The generated __init__ of the dataclass Range: its fields are left and
\* right, any other keyword is a TypeError.
Range_init(kwargs) ==
    IF DOMAIN kwargs \subseteq {"left", "right"}
    THEN Return(Range(IF "left" \in DOMAIN kwargs THEN kwargs.left ELSE UNSET,
                      IF "right" \in DOMAIN kwargs THEN kwargs.right ELSE UNSET))
    ELSE Raise("TypeError")

\* HashIndex.match: [IndexLookup(index=self, value=i.value) for i in items]
RECURSIVE lookup_each(_, _)
lookup_each(self, items) ==
    IF items = <<>> THEN <<>>
    ELSE <<IndexLookup(self, Head(items).value)>> \o lookup_each(self, Tail(items))

\* HashIndex.match
HashIndex_match(self, condition, side) ==
    LET operand == condition[side] IN
    IF condition.type = "Eq" /\ operand.type = "Literal"
    THEN IndexLookup(self, operand.value)
    ELSE IF /\ condition.type = "In"
            /\ side = "right"
            /\ operand.type = "Array"
            /\ \A i \in 1..Len(operand.items) : operand.items[i].type = "Literal"
    THEN Union(lookup_each(self, operand.items))
    ELSE None

COMPARISON == {"Lt", "Le", "Gt", "Ge"}
INVERSE_COMPARISONS == [Lt |-> "Gt", Gt |-> "Lt", Le |-> "Ge", Ge |-> "Le"]

\* SortedDictIndex.match
\* The keyword arguments SortedDictIndex.match builds its Range with
range_kwargs(comparison, value) ==
    CASE comparison = "Lt" -> [right |-> value, right_inclusive |-> FALSE]
      [] comparison = "Le" -> [right |-> value, right_inclusive |-> TRUE]
      [] comparison = "Gt" -> [left |-> value, left_inclusive |-> FALSE]
      [] comparison = "Ge" -> [left |-> value, left_inclusive |-> TRUE]

\* IndexRange(index=self, range=range), once Range(...) has returned
index_range(self, range) ==
    IF IsRaise(range) THEN range ELSE IndexRange(self, range.value)

SortedDictIndex_match(self, condition, side) ==
    IF condition.type \in COMPARISON /\ condition[side].type = "Literal"
    THEN index_range(self,
             Range_init(range_kwargs(IF side = "left"
                                     THEN INVERSE_COMPARISONS[condition.type]
                                     ELSE condition.type,
                                     condition[side].value)))
    ELSE HashIndex_match(self, condition, side)

\* InvertedIndex.match
InvertedIndex_match(self, condition, side) ==
    LET operand == condition[side] IN
    IF condition.type = "In" /\ side = "left" /\ operand.type = "Literal"
    THEN IndexLookup(self, operand.value)
    ELSE None

\* index.match(condition, operand), dispatched on the class of the index
Index_match(self, condition, side) ==
    CASE self.class = "HashIndex" -> HashIndex_match(self, condition, side)
      [] self.class = "SortedDictIndex" -> SortedDictIndex_match(self, condition, side)
      [] self.class = "InvertedIndex" -> InvertedIndex_match(self, condition, side)

(***************************************************************************)
(* Index.range.                                                            *)
(***************************************************************************)
\* The attributes of a Range instance: the dataclass fields left and right;
\* any other name is an AttributeError.
Range_getattr(range, name) ==
    IF name \in {"left", "right"} THEN Return(range[name]) ELSE Raise("AttributeError")

\* SortedDict.bisect_left(x) / bisect_right(x): the number of keys below x
\* (bisect_right counts a key equal to x too).  x is compared with the
\* keys, and a Bound tuple does not compare with an int key.
bisect(d, x, right) ==
    IF DOMAIN d = {} THEN Return(0)
    ELSE IF x \in Int
    THEN Return(Cardinality({k \in DOMAIN d : k < x \/ (right /\ k = x)}))
    ELSE Raise("TypeError")

\* SortedDictIndex.range, one end of the slice: `unset` when the bound is
\* UNSET, else the bisection the flag range.<side>_inclusive selects, which
\* is bisect_left for an inclusive left or an exclusive right bound.
slice_end_at(d, bound, inclusive, side) ==
    IF IsRaise(inclusive) THEN inclusive
    ELSE bisect(d, bound, inclusive.value = (side = "right"))

slice_end(d, range, side, unset) ==
    IF range[side] = UNSET THEN Return(unset)
    ELSE slice_end_at(d, range[side], Range_getattr(range, side \o "_inclusive"), side)

\* self.idx.values()[left:right]: the buckets in key order, as a set of
\* buckets; right = -1 stands for None, the end of the list.
slice_groups(d, left, right) ==
    {d[k] : k \in {j \in DOMAIN d :
                      LET pos == Cardinality({i \in DOMAIN d : i < j}) IN
                      left <= pos /\ (right = -1 \/ pos < right)}}

\* set.union(*groups) if groups else set()
union_groups(left, right, d) ==
    IF IsRaise(left) THEN left
    ELSE IF IsRaise(right) THEN right
    ELSE Return(UNION slice_groups(d, left.value, right.value))

\* SortedDictIndex.range
SortedDictIndex_range(d, range) ==
    union_groups(slice_end(d, range, "left", 0), slice_end(d, range, "right", -1), d)

\* HashIndex.range, inherited by InvertedIndex
HashIndex_range(d, range) == Raise("ValueError")

\* index.range(range), dispatched on the class of the index
Index_range(self, d, range) ==
    IF self.class = "SortedDictIndex" THEN SortedDictIndex_range(d, range)
    ELSE HashIndex_range(d, range)

(***************************************************************************)
(* The optimizer rules.                                                    *)
(***************************************************************************)
\* MergeSetOps.transform, the loop that builds new_inputs
RECURSIVE merge_inputs(_, _)
merge_inputs(inputs, type) ==
    IF inputs = <<>> THEN <<>>
    ELSE (IF Head(inputs).type = type THEN Head(inputs).inputs ELSE <<Head(inputs)>>)
         \o merge_inputs(Tail(inputs), type)

\* A MergeSetOps that merges the first input only.
MergeSetOps_transform_first(plan) ==
    IF IsSetOp(plan) /\ plan.inputs # <<>>
    THEN [plan EXCEPT !.inputs = merge_inputs(<<Head(@)>>, plan.type) \o Tail(@)]
    ELSE plan

\* MergeSetOps.transform
MergeSetOps_transform(plan) ==
    IF IsSetOp(plan) THEN [plan EXCEPT !.inputs = merge_inputs(@, plan.type)] ELSE plan

\* UseIndex.transform, the loop over ctx.indexes.get(name): the first match
\* that is not None, or the exception match raised
RECURSIVE first_match(_, _, _, _)

\* `if match: return match`, else the next index
match_or_next(m, list, condition, side, plan) ==
    IF m # None THEN m ELSE first_match(list, condition, side, plan)

first_match(list, condition, side, plan) ==
    IF list = <<>> THEN plan
    ELSE match_or_next(Index_match(Head(list), condition, side),
                       Tail(list), condition, side, plan)

\* UseIndex.transform
\* UseIndex.transform: the side of the operand, `right` when the attribute
\* is on the left, `left` when it is on the right, `none` otherwise
operand_side(condition) ==
    IF condition.left.type = "Attribute" /\ condition.right.type # "Attribute"
    THEN "right"
    ELSE IF condition.right.type = "Attribute" /\ condition.left.type # "Attribute"
    THEN "left"
    ELSE "none"

\* UseIndex.transform: the loop over ctx.indexes.get(attr.name)
use_index(plan, ctx, side) ==
    IF side = "none" THEN plan
    ELSE first_match(indexes_get(ctx, plan.condition[IF side = "left" THEN "right"
                                                     ELSE "left"].name),
                     plan.condition, side, plan)

UseIndex_transform(plan, ctx) ==
    IF plan.type = "ScanFilter" /\ IsBinOp(plan.condition)
    THEN use_index(plan, ctx, operand_side(plan.condition))
    ELSE plan

\* CombineRanges.transform: the keys of plans_by_index, in insertion order
RECURSIVE index_keys(_, _)
index_keys(inputs, seen) ==
    IF inputs = <<>> THEN <<>>
    ELSE IF Head(inputs).type \in {"IndexLookup", "IndexRange"}
            /\ Head(inputs).index \notin seen
    THEN <<Head(inputs).index>> \o index_keys(Tail(inputs), seen \cup {Head(inputs).index})
    ELSE index_keys(Tail(inputs), seen)

\* CombineRanges.transform: `ranges`, a lookup treated as a range
as_range(plan) ==
    IF plan.type = "IndexLookup"
    THEN Range(Bound(plan.value, TRUE), Bound(plan.value, TRUE))
    ELSE plan.range

\* CombineRanges.transform: the fold of the ranges of plans[1:] into
\* new_range; None as soon as a combination is None
RECURSIVE fold_ranges(_, _)

\* `if not new_range: return Empty()`, else the next plan
fold_next(combined, plans) ==
    IF combined = None THEN None ELSE fold_ranges(combined, plans)

fold_ranges(new_range, plans) ==
    IF plans = <<>> THEN new_range
    ELSE fold_next(Range_combine(new_range, as_range(Head(plans))), Tail(plans))

\* CombineRanges.transform: the loop over plans_by_index.items(), which
\* appends to `inputs`; empty when the loop returned Empty()
RECURSIVE combine_groups(_, _, _)

\* plans_by_index[index]
plans_of(index, plan_inputs) ==
    SelectSeq(plan_inputs, LAMBDA i : /\ i.type \in {"IndexLookup", "IndexRange"}
                                      /\ i.index = index)

\* One iteration of the loop, given the plans of the index and, for several
\* plans, their combined range
combine_group(keys, plan_inputs, inputs, plans, new_range) ==
    IF Len(plans) = 1
    THEN combine_groups(Tail(keys), plan_inputs, Append(inputs, plans[1]))
    ELSE IF new_range = None THEN [empty |-> TRUE, inputs |-> <<>>]
    ELSE combine_groups(Tail(keys), plan_inputs,
                        Append(inputs, IndexRange(Head(keys), new_range)))

\* The plans of the index, and the range of plans[0] combined with the
\* ranges of plans[1:]
combine_plans(keys, plan_inputs, inputs, plans) ==
    combine_group(keys, plan_inputs, inputs, plans,
                  fold_ranges(as_range(Head(plans)), Tail(plans)))

combine_groups(keys, plan_inputs, inputs) ==
    IF keys = <<>> THEN [empty |-> FALSE, inputs |-> inputs]
    ELSE combine_plans(keys, plan_inputs, inputs, plans_of(Head(keys), plan_inputs))

\* inputs[0] if len(inputs) == 1 else Intersect(inputs=inputs)
single_or_intersect(inputs) ==
    IF Len(inputs) = 1 THEN inputs[1] ELSE Intersect(inputs)

\* CombineRanges.transform: Empty() when the loop returned it, else the
\* inputs extended with the others
regroup(grouped, others) ==
    IF grouped.empty THEN Empty ELSE single_or_intersect(grouped.inputs \o others)

\* CombineRanges.transform
CombineRanges_transform(plan) ==
    IF plan.type = "Intersect"
    THEN regroup(combine_groups(index_keys(plan.inputs, {}), plan.inputs, <<>>),
                 SelectSeq(plan.inputs,
                           LAMBDA i : i.type \notin {"IndexLookup", "IndexRange"}))
    ELSE plan

\* CombineFilters.transform: (f.condition for f in filters)
RECURSIVE condition_each(_)
condition_each(filters) ==
    IF filters = <<>> THEN <<>>
    ELSE <<Head(filters).condition>> \o condition_each(Tail(filters))

\* A CombineFilters that forgets the inputs that are not scans.
combine_filters_only(plan, filters, others) ==
    IF filters # <<>> THEN ScanFilter(and_(condition_each(filters))) ELSE plan

\* CombineFilters.transform, given the ScanFilter inputs and the others
combine_filters(plan, filters, others) ==
    IF filters # <<>>
    THEN IF others # <<>>
         THEN Filter(and_(condition_each(filters)), single_or_intersect(others))
         ELSE ScanFilter(and_(condition_each(filters)))
    ELSE plan

CombineFilters_transform(plan) ==
    IF plan.type = "Intersect"
    THEN combine_filters(plan,
                         SelectSeq(plan.inputs, LAMBDA i : i.type = "ScanFilter"),
                         SelectSeq(plan.inputs, LAMBDA i : i.type # "ScanFilter"))
    ELSE plan

\* TransformerRule.transform of the rule named `rule`
Rule_transform(rule, plan, ctx) ==
    CASE rule = "MergeSetOps" -> MergeSetOps_transform(plan)
      [] rule = "UseIndex" -> UseIndex_transform(plan, ctx)
      [] rule = "CombineRanges" -> CombineRanges_transform(plan)
      [] rule = "CombineFilters" -> CombineFilters_transform(plan)

\* Plan.transform with TransformerWithContext(ctx, rule.transform): the
\* inputs first (transform_inputs), then the node.  An exception raised
\* below propagates.
RECURSIVE transform(_, _, _)

\* SetOp.transform_inputs: [i.transform(transformer) for i in self.inputs]
RECURSIVE transform_each(_, _, _)
transform_each(inputs, rule, ctx) ==
    IF inputs = <<>> THEN <<>>
    ELSE <<transform(Head(inputs), rule, ctx)>> \o transform_each(Tail(inputs), rule, ctx)

\* SetOp.transform_inputs: self.inputs = [...], unless an input raised
with_inputs(plan, inputs, raised) ==
    IF raised # None THEN raised ELSE [plan EXCEPT !.inputs = inputs]

SetOp_transform_inputs(plan, inputs) == with_inputs(plan, inputs, FirstRaise(inputs))

\* Filter.transform_inputs: self.input = self.input.transform(transformer)
Filter_transform_inputs(plan, input) ==
    IF IsRaise(input) THEN input ELSE [plan EXCEPT !.input = input]

\* Plan.transform_inputs, overridden by SetOp and Filter
transform_inputs(plan, rule, ctx) ==
    IF IsSetOp(plan)
    THEN SetOp_transform_inputs(plan, transform_each(plan.inputs, rule, ctx))
    ELSE IF plan.type = "Filter"
    THEN Filter_transform_inputs(plan, transform(plan.input, rule, ctx))
    ELSE plan

\* transformer(plan), once transform_inputs has returned
transform_node(rule, plan, ctx) ==
    IF IsRaise(plan) THEN plan ELSE Rule_transform(rule, plan, ctx)

transform(plan, rule, ctx) ==
    transform_node(rule, transform_inputs(plan, rule, ctx), ctx)

\* Chain.DEFAULT_RULES
DEFAULT_RULES == <<"MergeSetOps", "UseIndex", "CombineRanges", "CombineFilters">>

\* Chain.__call__
RECURSIVE Chain(_, _, _)

\* The remaining rules on the plan the rule returned
chain_next(rules, plan, ctx) ==
    IF IsRaise(plan) THEN plan ELSE Chain(rules, plan, ctx)

Chain(rules, plan, ctx) ==
    IF rules = <<>> THEN plan
    ELSE chain_next(Tail(rules), transform(plan, Head(rules), ctx), ctx)

(***************************************************************************)
(* The executor.                                                           *)
(***************************************************************************)
\* {o for o in source if self.match(condition, o)}: the comprehension
\* raises when match raises on an object of the source.
scan_matched(matched) ==
    IF \E m \in matched : IsRaise(m[2])
    THEN (CHOOSE m \in matched : IsRaise(m[2]))[2]
    ELSE Return({m[1] : m \in {n \in matched : Truthy(n[2])}})

scan(source, condition) ==
    scan_matched({<<o, match(condition, o)>> : o \in source})

\* set.union(*sets) of the sets returned
RECURSIVE set_union(_)

\* A union that returns its first operand.
set_union_first(sets) ==
    IF sets = <<>> THEN {} ELSE Head(sets).value

set_union(sets) ==
    IF sets = <<>> THEN {} ELSE Head(sets).value \cup set_union(Tail(sets))

\* utils.intersect(*sets) of the sets returned: the order of the operands,
\* ascending in size, does not change the intersection
RECURSIVE intersect(_)
intersect(sets) ==
    IF Len(sets) = 1 THEN sets[1].value ELSE Head(sets).value \cap intersect(Tail(sets))

\* IndexedSet.execute: the executors table has entries for ScanFilter,
\* Filter, Union, Intersect and IndexLookup; any other plan is a ValueError.
\* set.union() and set.intersection() of no argument are a TypeError.
RECURSIVE execute(_, _, _)

\* (self.execute(i) for i in plan.inputs)
RECURSIVE execute_each(_, _, _)
execute_each(inputs, os, ds) ==
    IF inputs = <<>> THEN <<>>
    ELSE <<execute(Head(inputs), os, ds)>> \o execute_each(Tail(inputs), os, ds)

\* execute_filter, given the outcome of self.execute(plan.input)
execute_filter(input, condition) ==
    IF IsRaise(input) THEN input ELSE scan(input.value, condition)

\* execute_union and execute_intersect, given the outcomes of the inputs
execute_setop(type, sets, raised) ==
    IF raised # None THEN raised
    ELSE IF sets = <<>> THEN Raise("TypeError")
    ELSE Return(IF type = "Union" THEN set_union(sets) ELSE intersect(sets))

execute_inputs(type, sets) == execute_setop(type, sets, FirstRaise(sets))

execute(plan, os, ds) ==
    CASE plan.type = "ScanFilter" -> scan(os, plan.condition)
      [] plan.type = "Filter" ->
            execute_filter(execute(plan.input, os, ds), plan.condition)
      [] IsSetOp(plan) -> execute_inputs(plan.type, execute_each(plan.inputs, os, ds))
      [] plan.type = "IndexLookup" -> Return(HashIndex_lookup(ds[plan.index], plan.value))
      [] OTHER -> Raise("ValueError")


\* The set object execute returns: the comprehensions, set.union and
\* set.intersection build a new set, while the IndexLookup executor returns
\* index.lookup(value), which is `self.idx.get(value) or set()`: the bucket
\* of the index itself when it is not empty.  None stands for a new set.
execute_shared(plan, ds) ==
    IF plan.type = "IndexLookup" /\ HashIndex_lookup(ds[plan.index], plan.value) # {}
    THEN [index |-> plan.index, value |-> plan.value]
    ELSE None

(***************************************************************************)
(* The conditions filter is called with.                                   *)
(***************************************************************************)
Literals == {Literal(v) : v \in Values}

\* Arrays of literals, of every order and with repetitions
Arrays == UNION {{Array(s) : s \in [1..n -> Literals]} : n \in 0..MaxItems}

\* A comparison of the attribute a with a literal on either side, a IN
\* (array), literal IN tags, and a = a.
Atoms ==
    {BinOp(op, Attribute("a"), l) : op \in {"Eq", "Ne", "Lt", "Le", "Gt", "Ge"}, l \in Literals}
    \cup {BinOp(op, l, Attribute("a")) : op \in {"Eq", "Ne", "Lt", "Le", "Gt", "Ge"}, l \in Literals}
    \cup {BinOp("In", Attribute("a"), arr) : arr \in Arrays}
    \cup {BinOp("In", l, Attribute("tags")) : l \in Literals}
    \cup {BinOp("Eq", Attribute("a"), Attribute("a"))}

\* The operands of AND and OR; the arrays among them hold distinct literals
\* in ascending order
Operands ==
    {BinOp(op, Attribute("a"), l) : op \in {"Eq", "Ne", "Gt"}, l \in Literals}
    \cup {BinOp("Le", l, Attribute("a")) : l \in Literals}
    \cup {BinOp("In", Attribute("a"), arr) :
              arr \in {a \in Arrays : \A i, j \in 1..Len(a.items) :
                                          i < j => a.items[i].value < a.items[j].value}}
    \cup {BinOp("In", l, Attribute("tags")) : l \in Literals}

\* The operands of the nested AND and OR
NestedOperands ==
    {BinOp("Eq", Attribute("a"), Literal(1)),
     BinOp("Ne", Attribute("a"), Literal(1)),
     BinOp("In", Literal(1), Attribute("tags"))}

Conditions ==
    Atoms
    \cup {Not(c) : c \in NestedOperands}
    \cup {BinOp(op, l, r) : op \in {"And", "Or"}, l \in Operands, r \in Operands}
    \cup {BinOp(op1, BinOp(op2, x, y), z) : op1 \in {"And", "Or"}, op2 \in {"And", "Or"},
              x \in NestedOperands, y \in NestedOperands, z \in NestedOperands}
    \cup {BinOp(op1, x, BinOp(op2, y, z)) : op1 \in {"And", "Or"}, op2 \in {"And", "Or"},
              x \in NestedOperands, y \in NestedOperands, z \in NestedOperands}
    \cup {Not(BinOp(op, x, y)) : op \in {"And", "Or"}, x \in NestedOperands, y \in NestedOperands}

(***************************************************************************)
(* The specification of the query pipeline: on any IndexedSet as           *)
(* constructed, filter is called with any condition and match with any     *)
(* condition UseIndex would hand to an index.                              *)
(***************************************************************************)
\* IndexedSet.filter: plan, optimize, execute.  An exception of the
\* optimizer propagates and nothing is executed.
filter_execute(condition, plan, optimized) ==
    [op |-> "filter", condition |-> condition, plan |-> plan, optimized |-> optimized,
     ret |-> IF IsRaise(optimized) THEN optimized ELSE execute(optimized, objs, idx),
     shared |-> IF IsRaise(optimized) THEN None ELSE execute_shared(optimized, idx)]

filter_optimize(condition, plan) ==
    filter_execute(condition, plan, Chain(DEFAULT_RULES, plan, indexes))

IndexedSet_filter(condition) == filter_optimize(condition, Planner_plan(condition))

\* A query leaves the set and its indexes as they are, so the state a query
\* reaches after another query is the state it reaches from the constructed
\* set: the queries are taken from there.
FilterCall(condition) ==
    /\ call.op = "init"
    /\ call' = IndexedSet_filter(condition)
    /\ UNCHANGED <<objs, indexes, idx>>

\* index.match(condition, operand) on a registered index, with a condition
\* that has the attribute of the index on one side and not on the other.
MatchCall(index, condition, side) ==
    /\ call.op = "init"
    /\ index \in DOMAIN idx
    /\ condition[side].type # "Attribute"
    /\ condition[IF side = "left" THEN "right" ELSE "left"] = Attribute(index.attr)
    /\ call' = [op |-> "match", index |-> index, condition |-> condition, side |-> side,
                ret |-> Index_match(index, condition, side)]
    /\ UNCHANGED <<objs, indexes, idx>>

\* index.range(range) on a registered index.
RangeCall(index, range) ==
    /\ call.op = "init"
    /\ index \in DOMAIN idx
    /\ call' = [op |-> "range", index |-> index, range |-> range,
                ret |-> Index_range(index, idx[index], range)]
    /\ UNCHANGED <<objs, indexes, idx>>

\* The plans a rule is called with, over the registered indexes: a scan of
\* any atom, of a negation, of a bare attribute or literal, of a comparison
\* of two literals or of an AND; a lookup of the least or the greatest
\* value in any index, a range with one such bound on a sorted index, a Union and a Filter; an Intersect of two of
\* these, or of three of a few of these; and nested plans: an Intersect or
\* Union with an Intersect or Union as its first or second input, three
\* set operations deep, and a Filter of an Intersect.
RulePlans(registered) ==
    LET scans == {ScanFilter(c) : c \in NestedOperands}
        lookups == {IndexLookup(i, v) : i \in registered, v \in {1, MaxVal}}
        ranges == {IndexRange(i, r) :
                      i \in registered \cap {SortedDictIndex("a")},
                      r \in {Range(Bound(v, b), UNSET) : v \in {1, MaxVal}, b \in BOOLEAN}
                            \cup {Range(UNSET, Bound(v, b)) : v \in {1, MaxVal}, b \in BOOLEAN}}
        others == {Union(<<ScanFilter(BinOp("Eq", Attribute("a"), Literal(1))),
                          ScanFilter(BinOp("In", Literal(1), Attribute("tags")))>>),
                   Filter(BinOp("Ne", Attribute("a"), Literal(1)),
                          ScanFilter(BinOp("In", Literal(1), Attribute("tags"))))}
        few == {IndexLookup(i, 1) : i \in registered}
               \cup {IndexRange(i, r) :
                         i \in registered \cap {SortedDictIndex("a")},
                         r \in {Range(Bound(1, FALSE), UNSET), Range(UNSET, Bound(2, TRUE))}}
               \cup {ScanFilter(BinOp("Eq", Attribute("a"), Literal(1))),
                     ScanFilter(BinOp("In", Literal(1), Attribute("tags")))}
        nest == {IndexLookup(i, 1) : i \in registered}
                \cup {ScanFilter(BinOp("Eq", Attribute("a"), Literal(1)))}
        setop(type, inputs) == [type |-> type, inputs |-> inputs] IN
    {ScanFilter(c) : c \in Atoms}
    \cup {ScanFilter(Not(c)) : c \in NestedOperands}
    \cup {ScanFilter(Attribute("a")), ScanFilter(Literal(1)),
          ScanFilter(BinOp("Eq", Literal(1), Literal(1))),
          ScanFilter(BinOp("And", BinOp("Eq", Attribute("a"), Literal(1)),
                                  BinOp("Ne", Attribute("a"), Literal(1))))}
    \cup lookups \cup ranges \cup others
    \cup {Intersect(<<x, y>>) : x, y \in scans \cup lookups \cup ranges \cup others}
    \cup {Intersect(<<x, y, z>>) : x, y, z \in few}
    \cup {setop(outer, <<setop(inner, <<x, y>>), z>>) :
              outer \in {"Intersect", "Union"}, inner \in {"Intersect", "Union"},
              x \in nest, y \in nest, z \in nest}
    \cup {setop(outer, <<x, setop(inner, <<y, z>>)>>) :
              outer \in {"Intersect", "Union"}, inner \in {"Intersect", "Union"},
              x \in nest, y \in nest, z \in nest}
    \cup {setop(type, <<setop(type, <<setop(type, <<x, y>>), x>>), y>>) :
              type \in {"Intersect", "Union"}, x \in nest, y \in nest}
    \cup {Filter(BinOp("Ne", Attribute("a"), Literal(1)), Intersect(<<x, y>>)) :
              x \in nest, y \in nest}

\* rule(plan, ctx) for a TransformerRule: plan.transform with the rule's
\* transform, on the set as constructed; and rule(rule(plan, ctx), ctx),
\* the rule called again with the plan it returned.
RuleCall(rule) ==
    /\ call.op = "init"
    /\ \E plan \in RulePlans(DOMAIN idx) :
           LET ret == transform(plan, rule, indexes) IN
           call' = [op |-> "rule", rule |-> rule, plan |-> plan, ret |-> ret,
                    again |-> IF IsRaise(ret) THEN ret ELSE transform(ret, rule, indexes)]
    /\ UNCHANGED <<objs, indexes, idx>>

NextFilter ==
    \/ \E condition \in Conditions : FilterCall(condition)
    \/ \E index \in AllIndexes, condition \in Atoms, side \in {"left", "right"} :
           MatchCall(index, condition, side)
    \/ \E index \in AllIndexes, range \in Ranges : RangeCall(index, range)
    \/ \E rule \in SeqSet(DEFAULT_RULES) : RuleCall(rule)

SpecFilter == Init /\ [][NextFilter]_vars

\* The caller changes the set filter returned, with set.add(x) or
\* set.discard(x): a set that is a bucket of an index changes in the index.
MutateResult(x, adding) ==
    /\ call.op = "filter"
    /\ ~IsRaise(call.ret)
    /\ call' = [op |-> "mutate", condition |-> call.condition, shared |-> call.shared,
                before |-> call.ret,
                ret |-> Return(IF adding THEN call.ret.value \cup {x}
                               ELSE call.ret.value \ {x})]
    /\ idx' = IF call.shared = None THEN idx
              ELSE [idx EXCEPT ![call.shared.index][call.shared.value] =
                                   IF adding THEN @ \cup {x} ELSE @ \ {x}]
    /\ UNCHANGED <<objs, indexes>>

NextAlias ==
    \/ \E condition \in Atoms : FilterCall(condition)
    \/ \E x \in Objects, adding \in BOOLEAN : MutateResult(x, adding)

\* filter with one comparison, and then a change of the set it returned
SpecAlias == Init /\ [][NextAlias]_vars


(***************************************************************************)
(* The specification of Range.combine: on an IndexedSet() with no objects  *)
(* and no indexes, combine is applied to any two ranges.                   *)
(***************************************************************************)
InitRange ==
    /\ objs = {}
    /\ indexes = <<>>
    /\ idx = <<>>
    /\ call = [op |-> "init", ret |-> None]

Combine(self, other) ==
    /\ call.op = "init"
    /\ call' = [op |-> "combine", self |-> self, other |-> other,
                ret |-> Range_combine(self, other)]
    /\ UNCHANGED <<objs, indexes, idx>>

NextRange == \E self, other \in Ranges : Combine(self, other)

SpecRange == InitRange /\ [][NextRange]_vars

\* v lies in the range r; None, the empty signal, holds no value.
InRange(v, r) ==
    /\ r # None
    /\ r.left # UNSET => IF r.left[2] THEN r.left[1] <= v ELSE r.left[1] < v
    /\ r.right # UNSET => IF r.right[2] THEN v <= r.right[1] ELSE v < r.right[1]

\* The interval r holds no value of a dense order: left value > right
\* value, or equal values with an exclusive bound.
EmptyRange(r) ==
    /\ r.left # UNSET
    /\ r.right # UNSET
    /\ \/ r.left[1] > r.right[1]
       \/ r.left[1] = r.right[1] /\ ~(r.left[2] /\ r.right[2])

\* C4.  Range.combine is commutative: a.combine(b) == b.combine(a).
CombineCommutative ==
    call.op = "combine" => call.ret = Range_combine(call.other, call.self)

\* C5 (as amended).  For every range r that is not empty, r.combine(r) == r
\* and r.combine(Range()) has the left and right bounds of r.
CombineIdempotentNonEmpty ==
    (call.op = "combine" /\ ~EmptyRange(call.self)) =>
        /\ call.other = call.self => call.ret = call.self
        /\ call.other = Range(UNSET, UNSET) =>
               /\ call.ret # None
               /\ call.ret.left = call.self.left
               /\ call.ret.right = call.self.right

\* The case of C5: a range with both bounds set, a single point, combined
\* with itself.
CombineIdempotentWitness ==
    /\ call.op = "combine"
    /\ call.other = call.self
    /\ call.self.left # UNSET
    /\ call.self.left = call.self.right

\* C5 as stated: for every range r, r.combine(r) == r and r.combine(Range())
\* has the left and right bounds of r.
CombineIdempotent ==
    call.op = "combine" =>
        /\ call.other = call.self => call.ret = call.self
        /\ call.other = Range(UNSET, UNSET) =>
               /\ call.ret # None
               /\ call.ret.left = call.self.left
               /\ call.ret.right = call.self.right

\* C6.  Range.combine is interval intersection: a value lies in
\* a.combine(b) iff it lies in a and in b, an equal-valued pair of bounds
\* combines to an inclusive bound only if both are inclusive, and None is
\* returned exactly when the combined bounds hold no value.
CombineIsIntersection ==
    call.op = "combine" =>
        /\ \A v \in 0..(MaxVal + 1) :
               InRange(v, call.ret) <=> (InRange(v, call.self) /\ InRange(v, call.other))
        /\ \A side \in {"left", "right"} :
               (/\ call.ret # None
                /\ call.self[side] # UNSET
                /\ call.other[side] # UNSET
                /\ call.self[side][1] = call.other[side][1])
               => call.ret[side] = Bound(call.self[side][1],
                                         call.self[side][2] /\ call.other[side][2])


(***************************************************************************)
(* C2 (as amended).  Index coherence: every stored object is filed under   *)
(* every value its index extracts from it.  It holds after construction    *)
(* and every call keeps it, except an add or update that raises.           *)
(***************************************************************************)
Coherent(os, ds) ==
    \A i \in DOMAIN ds, o \in os :
        LET vals == extract_values(i, o) IN
        ~IsRaise(vals) =>
            \A k \in 1..Len(vals.value) : o \in HashIndex_lookup(ds[i], vals.value[k])

CoherencePreserved ==
    /\ Coherent(objs, idx)
    /\ [][(Coherent(objs, idx) /\ ~(call'.op \in {"add", "update"} /\ IsRaise(call'.ret)))
            => Coherent(objs', idx')]_vars

\* The case of C2: an update that returned, on a set of several objects
\* with a registered index that files them.
CoherenceWitness ==
    /\ call.op = "update"
    /\ call.ret = None
    /\ Cardinality(objs) >= 2
    /\ \E i \in DOMAIN idx : \E k \in DOMAIN idx[i] : Cardinality(idx[i][k]) >= 2

\* C2 as stated: index coherence holds after any sequence of add, discard,
\* update and difference_update calls.
CoherenceAlways == Coherent(objs, idx)

(***************************************************************************)
(* C3.  No stale index entries: every object in a bucket of a registered   *)
(* index is a member of the set.                                           *)
(***************************************************************************)
NoStaleEntries ==
    \A i \in DOMAIN idx : \A k \in DOMAIN idx[i] : idx[i][k] \subseteq objs

(***************************************************************************)
(* The query pipeline.                                                     *)
(***************************************************************************)
\* Every node of a plan: the plan, and the nodes of its inputs.
RECURSIVE Nodes(_)
Nodes(plan) ==
    {plan} \cup (IF IsSetOp(plan)
                 THEN UNION {Nodes(plan.inputs[i]) : i \in 1..Len(plan.inputs)}
                 ELSE IF plan.type = "Filter" THEN Nodes(plan.input)
                 ELSE {})

\* C1.  filter(c) returns, without error, the set of the stored objects
\* that match c, whenever matching c against the stored objects does not
\* itself raise.
FilterEqualsScan ==
    (call.op = "filter" /\ ~IsRaise(scan(objs, call.condition))) =>
        call.ret = scan(objs, call.condition)

\* C7.  Executing a plan the default optimizer returned never raises the
\* Unsupported plan error, and executing Empty returns the empty set.
ExecuteIsTotal ==
    (call.op = "filter" /\ ~IsRaise(call.optimized)) =>
        /\ call.ret # Raise("ValueError")
        /\ call.optimized = Empty => call.ret = Return({})

\* C8.  The plan of the default optimizer has no IndexRange on an index
\* whose range() raises, a HashIndex or an InvertedIndex.
NoRangeOnHashIndex ==
    (call.op = "filter" /\ ~IsRaise(call.optimized)) =>
        \A n \in Nodes(call.optimized) :
            n.type = "IndexRange" => n.index.class = "SortedDictIndex"

\* C9.  Every Intersect and Union of the plan the default optimizer hands
\* to the executor has at least two inputs.
SetOpsHaveTwoInputs ==
    (call.op = "filter" /\ ~IsRaise(call.optimized)) =>
        \A n \in Nodes(call.optimized) : IsSetOp(n) => Len(n.inputs) >= 2

\* C10.  SortedDictIndex.match on a comparison of its attribute with a
\* literal v returns the IndexRange with one bound at v: right exclusive for
\* <, right inclusive for <=, left exclusive for >, left inclusive for >=,
\* the comparison inverted first when the literal is on the left.
SortedMatchReturnsRange ==
    (/\ call.op = "match"
     /\ call.index.class = "SortedDictIndex"
     /\ call.condition.type \in COMPARISON
     /\ call.condition[call.side].type = "Literal") =>
        LET v == call.condition[call.side].value
            comparison == IF call.side = "left"
                          THEN INVERSE_COMPARISONS[call.condition.type]
                          ELSE call.condition.type IN
        call.ret = IndexRange(call.index,
                       CASE comparison = "Lt" -> Range(UNSET, Bound(v, FALSE))
                         [] comparison = "Le" -> Range(UNSET, Bound(v, TRUE))
                         [] comparison = "Gt" -> Range(Bound(v, FALSE), UNSET)
                         [] comparison = "Ge" -> Range(Bound(v, TRUE), UNSET))

\* C11.  SortedDictIndex.range(r) returns the stored objects whose indexed
\* value lies in r, each bound with its inclusivity and an unset bound
\* unbounded; the empty set when no key is in r.
RangeReturnsMembers ==
    (call.op = "range" /\ call.index.class = "SortedDictIndex") =>
        call.ret = Return({o \in objs : InRange(o[call.index.attr], call.range)})

\* C12.  HashIndex.match returns IndexLookup(self, v) for an equality of its
\* attribute with a literal v on either side, a Union of one IndexLookup
\* per literal for attr IN (array of literals), and None for every other
\* condition; the plan it returns executes to the set the scan of the
\* condition returns.
HashMatchEquivalent ==
    (call.op = "match" /\ call.index.class = "HashIndex") =>
        LET operand == call.condition[call.side] IN
        /\ IF call.condition.type = "Eq" /\ operand.type = "Literal"
           THEN call.ret = IndexLookup(call.index, operand.value)
           ELSE IF call.condition.type = "In" /\ call.side = "right" /\ operand.type = "Array"
           THEN /\ call.ret.type = "Union"
                /\ Len(call.ret.inputs) = Len(operand.items)
                /\ \A i \in 1..Len(operand.items) :
                       call.ret.inputs[i] = IndexLookup(call.index, operand.items[i].value)
           ELSE call.ret = None
        /\ call.ret # None => execute(call.ret, objs, idx) = scan(objs, call.condition)

(***************************************************************************)
(* The set surface of IndexedSet.  IndexedSet is a MutableSet: it defines  *)
(* __contains__, __len__ and __iter__ on objs, and &, | and == are the     *)
(* mixin methods of the abstract base class, written with those three and  *)
(* with the constructor.                                                   *)
(***************************************************************************)
\* A __contains__ that finds nothing.
IndexedSet_contains_none(os, x) == FALSE

\* IndexedSet.__contains__: x in self.objs
IndexedSet_contains(os, x) == x \in os

\* IndexedSet.__len__: len(self.objs)
IndexedSet_len(os) == Cardinality(os)

\* IndexedSet.__iter__: the objects it yields
IndexedSet_iter(os) == os

\* IndexedSet.__init__(objs) with no indexes: self.objs is the set of the
\* objects given
IndexedSet_objs(given) == given

\* a & b: IndexedSet(value for value in other if value in self)
IndexedSet_and(self, other) ==
    IndexedSet_objs({v \in IndexedSet_iter(other) : IndexedSet_contains(self, v)})

\* a | b: IndexedSet(e for s in (self, other) for e in s)
IndexedSet_or(self, other) ==
    IndexedSet_objs(IndexedSet_iter(self) \cup IndexedSet_iter(other))

\* a <= b: len(a) <= len(b) and every element of a is in b
IndexedSet_le(self, other) ==
    /\ IndexedSet_len(self) <= IndexedSet_len(other)
    /\ \A e \in IndexedSet_iter(self) : IndexedSet_contains(other, e)

\* a == b: len(a) == len(b) and a <= b
IndexedSet_eq(self, other) ==
    IndexedSet_len(self) = IndexedSet_len(other) /\ IndexedSet_le(self, other)

\* IndexedSet(objs) with no indexes, of any of the objects
InitSet ==
    /\ objs \in {IndexedSet_objs(S) : S \in SUBSET Objects}
    /\ indexes = <<>>
    /\ idx = <<>>
    /\ call = [op |-> "init", ret |-> None]

\* b = IndexedSet(S), then self & b, self | b, self == b and x in self
AlgebraCall(S, x) ==
    /\ call' = [op |-> "algebra", other |-> IndexedSet_objs(S), x |-> x,
                and |-> IndexedSet_and(objs, IndexedSet_objs(S)),
                or |-> IndexedSet_or(objs, IndexedSet_objs(S)),
                eq |-> IndexedSet_eq(objs, IndexedSet_objs(S)),
                contains |-> IndexedSet_contains(objs, x)]
    /\ UNCHANGED <<objs, indexes, idx>>

\* What the builders are given: bare scalars, comparisons of the attribute
\* a with a scalar, scalar IN tags, negations, and nested and_ / or_.
FluentNested ==
    {binop("Eq", Attribute("a"), Scalar(1)),
     binop("Ne", Attribute("a"), Scalar(1)),
     binop("In", Scalar(1), Attribute("tags"))}

FluentOperands ==
    {Scalar(v) : v \in Values}
    \cup {binop(op, Attribute("a"), Scalar(v)) : op \in {"Eq", "Ne", "Gt"}, v \in Values}
    \cup {binop("Le", Scalar(v), Attribute("a")) : v \in Values}
    \cup {binop("In", Scalar(v), Attribute("tags")) : v \in Values}
    \cup {not_(binop("Eq", Attribute("a"), Scalar(v))) : v \in Values}
    \cup {and_(<<x, y>>) : x, y \in FluentNested}
    \cup {or_(<<x, y>>) : x, y \in FluentNested}

\* The operands of one and_(...) or or_(...): one, two or three of them
FluentArguments ==
    {<<x>> : x \in FluentOperands}
    \cup {<<x, y>> : x, y \in FluentOperands}
    \cup {<<x, y, z>> : x, y, z \in FluentNested \cup {Scalar(1)}}

\* and_(*operands) or or_(*operands)
build(builder, operands) ==
    IF builder = "and_" THEN and_(operands) ELSE or_(operands)

\* self.filter(and_(*operands)) or self.filter(or_(*operands)), on the set
\* as constructed
FluentCall(builder, operands) ==
    /\ call.op = "init"
    /\ call' = [op |-> "fluent", builder |-> builder, operands |-> operands,
                condition |-> build(builder, operands),
                ret |-> IndexedSet_filter(build(builder, operands)).ret]
    /\ UNCHANGED <<objs, indexes, idx>>

NextSet ==
    \/ Next
    \/ \E S \in SUBSET Objects, x \in Objects : AlgebraCall(S, x)

NextFluent ==
    \E builder \in {"and_", "or_"}, operands \in FluentArguments :
        FluentCall(builder, operands)

\* filter with the fluent builders, on an IndexedSet with no indexes
SpecFluent == InitSet /\ [][NextFluent]_vars

SpecSet == InitSet /\ [][NextSet]_vars

\* C13.  For IndexedSets a and b, a & b holds the objects in both, a | b
\* the objects in either, a == b when they have the same members, and
\* x in a is true iff x is a member of a.
SetAlgebra ==
    call.op = "algebra" =>
        /\ call.and = objs \cap call.other
        /\ call.or = objs \cup call.other
        /\ objs = call.other => call.eq
        /\ call.contains <=> call.x \in objs

\* The case of C13: two sets that overlap and differ, and an object that is
\* a member of the one and not of the other.
SetAlgebraWitness ==
    /\ call.op = "algebra"
    /\ call.and # {}
    /\ call.and # objs
    /\ call.and # call.other
    /\ call.x \in objs \ call.other

\* C14.  On an IndexedSet with no indexes, filter of a condition built with
\* and_ / or_ returns the stored objects the condition matches; a bare
\* scalar operand is wrapped in a Literal and n operands are folded into a
\* left-associative tree.
FluentFilterIsScan ==
    (call.op = "fluent" /\ indexes = <<>>) =>
        LET type == IF call.builder = "and_" THEN "And" ELSE "Or"
            leaf(i) == IF call.operands[i].type = "scalar"
                       THEN Literal(call.operands[i].value)
                       ELSE call.operands[i] IN
        /\ call.condition =
               CASE Len(call.operands) = 1 -> leaf(1)
                 [] Len(call.operands) = 2 -> BinOp(type, leaf(1), leaf(2))
                 [] Len(call.operands) = 3 ->
                        BinOp(type, BinOp(type, leaf(1), leaf(2)), leaf(3))
        /\ ~IsRaise(scan(objs, call.condition)) =>
               call.ret = scan(objs, call.condition)

\* The case of C14: or_ of three operands that selects some of the stored
\* objects and not all.
FluentFilterWitness ==
    /\ call.op = "fluent"
    /\ call.builder = "or_"
    /\ Len(call.operands) = 3
    /\ ~IsRaise(call.ret)
    /\ call.ret.value # {}
    /\ call.ret.value # objs

(***************************************************************************)
(* The specification of the matcher: match is applied to any And or Or of  *)
(* two operands and any object.                                            *)
(***************************************************************************)
\* The operands: literals, the attributes themselves, and comparisons.
MatchOperands ==
    Literals
    \cup {Attribute("a"), Attribute("tags")}
    \cup {BinOp(op, Attribute("a"), l) : op \in {"Eq", "Ne", "Lt", "Ge"}, l \in Literals}
    \cup {BinOp("In", l, Attribute("tags")) : l \in Literals}

\* self.match(condition, obj)
Match(condition, obj) ==
    /\ call.op = "init"
    /\ call' = [op |-> "match_obj", condition |-> condition, obj |-> obj,
                ret |-> match(condition, obj)]
    /\ UNCHANGED <<objs, indexes, idx>>

NextMatch ==
    \E type \in {"And", "Or"}, l \in MatchOperands, r \in MatchOperands, obj \in Objects :
        Match(BinOp(type, l, r), obj)

SpecMatch == InitRange /\ [][NextMatch]_vars

\* C15.  match(And(l, r), o) is match(l, o) when that value is falsy and
\* match(r, o) otherwise, match(Or(l, r), o) is match(l, o) when that value
\* is truthy and match(r, o) otherwise; when the left operand decides, the
\* right operand is not evaluated and an error it would raise does not
\* surface.
MatchShortCircuits ==
    (call.op = "match_obj" /\ ~IsRaise(match(call.condition.left, call.obj))) =>
        LET l == match(call.condition.left, call.obj) IN
        IF Truthy(l) = (call.condition.type = "Or")
        THEN call.ret = l
        ELSE call.ret = match(call.condition.right, call.obj)

(***************************************************************************)
(* C16.  Mutation is best-effort with no rollback: when add(obj) or        *)
(* discard(obj) fails because an attribute getter throws at some index,    *)
(* the error propagates, the membership change to objs is kept, the        *)
(* indexes before that index are updated and that index and the later     *)
(* ones are as they were.                                                  *)
(***************************************************************************)
BestEffortMutation ==
    [][\A obj \in Objects :
         LET list == iter_indexes(indexes)
             at == {j \in 1..Len(list) : IsRaise(extract_values(list[j], obj))}
             k == IF at = {} THEN 0 ELSE CHOOSE j \in at : \A i \in at : j <= i IN
         /\ (Add(obj) /\ k # 0) =>
                /\ call'.ret = Raise("AttributeError")
                /\ objs' = objs \cup {obj}
                /\ \A i \in 1..Len(list) :
                       idx'[list[i]] =
                           IF i < k
                           THEN add_values(idx[list[i]],
                                           extract_values(list[i], obj).value, obj)
                           ELSE idx[list[i]]
         /\ (Discard(obj) /\ call'.ret = Raise("AttributeError")) =>
                /\ k # 0
                /\ objs' = objs \ {obj}
                /\ \A i \in 1..Len(list) :
                       idx'[list[i]] =
                           IF i < k
                           THEN remove_values(idx[list[i]],
                                              extract_values(list[i], obj).value, obj).d
                           ELSE idx[list[i]]]_vars

\* The case of C16: an add raised AttributeError at the second of two
\* indexes, and the object without the attribute is stored and filed in the
\* first index.
BestEffortWitness ==
    /\ call.op = "add"
    /\ call.ret = Raise("AttributeError")
    /\ iter_indexes(indexes) = <<InvertedIndex("tags"), HashIndex("a")>>
    /\ \E o \in objs :
           /\ "a" \notin DOMAIN o
           /\ \E v \in DOMAIN idx[InvertedIndex("tags")] : o \in idx[InvertedIndex("tags")][v]

(***************************************************************************)
(* The optimizer rules, called one at a time.                              *)
(***************************************************************************)
\* C17.  UseIndex rewrites ScanFilter(c) only when c is a BinOp with exactly
\* one side an Attribute: it returns the first match that is not None among
\* the indexes registered under that attribute name, probed in registration
\* order with the other side as operand; when both or neither sides are
\* attributes, when no index is registered under the name, or when every
\* index returns None, it returns the ScanFilter unchanged.
UseIndexRewrites ==
    (call.op = "rule" /\ call.rule = "UseIndex" /\ call.plan.type = "ScanFilter") =>
        LET c == call.plan.condition
            one == /\ IsBinOp(c)
                   /\ (c.left.type = "Attribute") # (c.right.type = "Attribute")
            side == IF c.left.type = "Attribute" THEN "right" ELSE "left"
            name == c[IF side = "right" THEN "left" ELSE "right"].name
            list == indexes_get(indexes, name)
            hits == {i \in 1..Len(list) : Index_match(list[i], c, side) # None} IN
        /\ ~IsRaise(call.ret)
        /\ call.ret = IF one /\ hits # {}
                      THEN Index_match(list[CHOOSE i \in hits : \A j \in hits : i <= j],
                                       c, side)
                      ELSE call.plan

\* C18.  CombineRanges on an Intersect of plans that hold no Intersect: the
\* result has at most one IndexLookup/IndexRange per index; an index with
\* one such input keeps it, an index with several gets a single IndexRange
\* whose range is the left-to-right fold of Range.combine over its inputs,
\* a lookup of v counted as [v, v]; the index-served nodes come first, in
\* the order in which their indexes first occur, then the other inputs in
\* their order; a single input is returned unwrapped; and when a fold step
\* is None the result is Empty, which executes to the empty set.
CombineRangesShape ==
    (/\ call.op = "rule" /\ call.rule = "CombineRanges" /\ call.plan.type = "Intersect"
     /\ \A n \in Nodes(call.plan) \ {call.plan} : n.type # "Intersect") =>
        LET ins == call.plan.inputs
            served(p) == p.type \in {"IndexLookup", "IndexRange"}
            group(i) == SelectSeq(ins, LAMBDA p : served(p) /\ p.index = i)
            rng(p) == IF p.type = "IndexLookup"
                      THEN Range(Bound(p.value, TRUE), Bound(p.value, TRUE))
                      ELSE p.range
            step(r, g, n) == IF r = None \/ Len(g) < n THEN r
                             ELSE Range_combine(r, rng(g[n]))
            fold(g) == step(step(rng(g[1]), g, 2), g, 3)
            keys == {ins[n].index : n \in {m \in 1..Len(ins) : served(ins[m])}}
            first(i) == CHOOSE n \in 1..Len(ins) :
                            /\ served(ins[n]) /\ ins[n].index = i
                            /\ \A m \in 1..(n - 1) : ~(served(ins[m]) /\ ins[m].index = i)
            out == IF call.ret.type = "Intersect" THEN call.ret.inputs ELSE <<call.ret>>
            k == Cardinality(keys) IN
        /\ ~IsRaise(call.ret)
        /\ IF \E i \in keys : fold(group(i)) = None
           THEN /\ call.ret = Empty
                /\ execute(call.ret, objs, idx) = Return({})
           ELSE /\ call.ret.type = "Intersect" => Len(out) # 1
                /\ Len(out) >= k
                /\ \A n \in 1..k :
                       /\ served(out[n])
                       /\ out[n] = IF Len(group(out[n].index)) = 1
                                   THEN group(out[n].index)[1]
                                   ELSE IndexRange(out[n].index, fold(group(out[n].index)))
                       /\ \A m \in 1..(n - 1) : first(out[m].index) < first(out[n].index)
                /\ SubSeq(out, k + 1, Len(out)) = SelectSeq(ins, LAMBDA p : ~served(p))

\* C19.  CombineRanges preserves the result set: for an Intersect of plans
\* that hold no Intersect, with several IndexLookup/IndexRange inputs on
\* one index, of any class, whose execution returns a set, executing the rewritten plan returns the same
\* set.
CombineRangesPreserves ==
    (/\ call.op = "rule" /\ call.rule = "CombineRanges" /\ call.plan.type = "Intersect"
     /\ \A n \in Nodes(call.plan) \ {call.plan} : n.type # "Intersect"
     /\ \E m, n \in 1..Len(call.plan.inputs) :
            /\ m < n
            /\ call.plan.inputs[m].type \in {"IndexLookup", "IndexRange"}
            /\ call.plan.inputs[n].type \in {"IndexLookup", "IndexRange"}
            /\ call.plan.inputs[m].index = call.plan.inputs[n].index
     /\ ~IsRaise(execute(call.plan, objs, idx))) =>
        /\ ~IsRaise(call.ret)
        /\ execute(call.ret, objs, idx) = execute(call.plan, objs, idx)

\* C20.  CombineFilters on an Intersect of plans that hold no Intersect:
\* without ScanFilter inputs the plan is returned unchanged; otherwise the
\* conditions of the ScanFilter inputs are folded in input order into one
\* left-associative And, and the result is ScanFilter(combined) when there
\* is no other input, else Filter(combined, base) with base the single
\* other input or the Intersect of the others.  When executing the given
\* plan returns a set, executing the result returns the same set.  With no
\* index, filter(x AND y) on two comparisons is optimized to one
\* ScanFilter of x AND y.
CombineFiltersShape ==
    /\ (/\ call.op = "rule" /\ call.rule = "CombineFilters" /\ call.plan.type = "Intersect"
        /\ \A n \in Nodes(call.plan) \ {call.plan} : n.type # "Intersect") =>
           LET ins == call.plan.inputs
               filters == SelectSeq(ins, LAMBDA p : p.type = "ScanFilter")
               others == SelectSeq(ins, LAMBDA p : p.type # "ScanFilter")
               both == BinOp("And", filters[1].condition, filters[2].condition)
               combined == CASE Len(filters) = 1 -> filters[1].condition
                             [] Len(filters) = 2 -> both
                             [] Len(filters) = 3 -> BinOp("And", both, filters[3].condition) IN
           /\ call.ret = IF filters = <<>> THEN call.plan
                         ELSE IF others = <<>> THEN ScanFilter(combined)
                         ELSE Filter(combined,
                                     IF Len(others) = 1 THEN others[1] ELSE Intersect(others))
           /\ ~IsRaise(execute(call.plan, objs, idx)) =>
                  execute(call.ret, objs, idx) = execute(call.plan, objs, idx)
    /\ (/\ call.op = "filter" /\ indexes = <<>>
        /\ call.condition.type = "And"
        /\ call.condition.left.type \notin {"And", "Or", "Not"}
        /\ call.condition.right.type \notin {"And", "Or", "Not"}) =>
           call.optimized = ScanFilter(call.condition)

\* The case of C20: two scans and an index lookup in one Intersect became a
\* Filter of the combined condition over the lookup, and the given plan
\* selects some of the objects, not all.
CombineFiltersWitness ==
    /\ call.op = "rule"
    /\ call.rule = "CombineFilters"
    /\ call.plan.type = "Intersect"
    /\ Len(call.plan.inputs) = 3
    /\ call.ret.type = "Filter"
    /\ call.ret.input.type = "IndexLookup"
    /\ call.ret.condition.type = "And"
    /\ \E o \in objs : execute(call.plan, objs, idx) = Return({o})
    /\ Cardinality(objs) > 1

\* C21.  Each default rule is idempotent: when rule(plan) returns a plan,
\* calling the rule again with that plan returns an equal plan; and the
\* plan MergeSetOps returns has no Intersect directly under an Intersect
\* and no Union directly under a Union.
RulesIdempotent ==
    (call.op = "rule" /\ ~IsRaise(call.ret)) =>
        /\ call.again = call.ret
        /\ call.rule = "MergeSetOps" =>
               \A n \in Nodes(call.ret) :
                   IsSetOp(n) => \A k \in 1..Len(n.inputs) : n.inputs[k].type # n.type

\* The case of C21: MergeSetOps flattened set operations three deep into
\* one, and each of the other rules rewrote a nested plan.
RulesIdempotentWitness ==
    /\ call.op = "rule"
    /\ call.ret # call.plan
    /\ ~IsRaise(call.ret)
    /\ \E n \in Nodes(call.plan) \ {call.plan} : IsSetOp(n) /\ n.type = call.plan.type
    /\ call.rule = "MergeSetOps" => /\ Len(call.plan.inputs) = 2
                                    /\ Len(call.ret.inputs) = 4

(***************************************************************************)
(* Removing what is not there.                                             *)
(***************************************************************************)
\* C22.  discard(x) for an x that is not a member, and difference_update(S)
\* for an S that holds non-members, do not raise; and when no object given
\* is a member they leave objs and the dict of every index as they were.
DiscardAbsentIsNoop ==
    [][/\ \A obj \in Objects \ objs :
              Discard(obj) => (~IsRaise(call'.ret) /\ objs' = objs /\ idx' = idx)
       /\ \A S \in Batches :
              (S \ objs # {} /\ DifferenceUpdate(S)) =>
                  /\ ~IsRaise(call'.ret)
                  /\ S \cap objs = {} => (objs' = objs /\ idx' = idx)]_vars

(***************************************************************************)
(* The set a query returns.                                                *)
(***************************************************************************)
\* C23.  filter leaves objs and every index bucket unchanged, and so does
\* a change the caller makes to the set filter returned: the same filter
\* called again returns what it returned before.
ResultIsPrivate ==
    /\ [][call'.op \in {"filter", "mutate"} => (objs' = objs /\ idx' = idx)]_vars
    /\ [](call.op = "mutate" => IndexedSet_filter(call.condition).ret = call.before)

====
